---- MODULE Spec2Model ----
(***************************************************************************)
(* Verification model of TvBin: the trade simulation of the Backtester     *)
(* (src/backtest/backtester.py) and the signal log of the SignalDetector   *)
(* (src/signal_detector/detector.py).                                      *)
(*                                                                         *)
(* Numbers.  The simulation computes on IEEE doubles (numpy scalars read   *)
(* from the price frame).  A number is modelled as a pair <<n, d>>:        *)
(*   d > 0   the exact rational n/d in lowest terms (rounding is           *)
(*           abstracted: finite results are exact),                        *)
(*   <<1,0>> +inf,  <<-1,0>> -inf,  <<0,0>> NaN,                           *)
(* which are the results numpy produces for a division by a zero close     *)
(* (a warning, not an exception).  Signed zeros are not distinguished:     *)
(* every divisor of the simulation is a close price or units x entry       *)
(* price, both non-negative.                                               *)
(***************************************************************************)
EXTENDS Integers, Sequences, FiniteSets, TLC

(* ---------------------------- bounds ----------------------------------- *)
MaxBars == 3
MaxPrice == 2
MaxSeries == 3
MaxLog == 3
MaxFrame == 3
MaxLevel == 1
MaxCloses == 4
MaxThreads == 2

(* ------------------------ extended rationals --------------------------- *)
\* Python None in a numeric or timestamp field (comparable with both)
None == <<>>

\* the timestamp of bar k of a series (index of the price frame)
Ts(k) == <<k>>
BarOf(ts) == ts[1]

Abs(x) == IF x < 0 THEN -x ELSE x

Sgn(x) == IF x > 0 THEN 1 ELSE IF x < 0 THEN -1 ELSE 0

RECURSIVE GCD(_, _)
GCD(a, b) == IF b = 0 THEN a ELSE GCD(b, a % b)

Norm(n, d) ==
    IF d = 0 THEN <<Sgn(n), 0>>
    ELSE LET g == GCD(Abs(n), Abs(d))
             s == Sgn(d)
         IN <<(s * n) \div g, (s * d) \div g>>

Num(k) == <<k, 1>>
Zero == <<0, 1>>
Inf == <<1, 0>>
NaN == <<0, 0>>
Hundred == <<100, 1>>

IsFinite(a) == a[2] > 0

FNeg(a) == <<-a[1], a[2]>>

FAdd(a, b) ==
    IF a = NaN \/ b = NaN THEN NaN
    ELSE IF a[2] = 0 /\ b[2] = 0 THEN (IF a = b THEN a ELSE NaN)
    ELSE IF a[2] = 0 THEN a
    ELSE IF b[2] = 0 THEN b
    ELSE IF a[2] = 1 \/ b[2] = 1
    THEN Norm(a[1] * b[2] + b[1] * a[2], a[2] * b[2])
    ELSE LET g == GCD(a[2], b[2])
         IN Norm(a[1] * (b[2] \div g) + b[1] * (a[2] \div g),
                 (a[2] \div g) * b[2])

FSub(a, b) == FAdd(a, FNeg(b))

FMul(a, b) == Norm(a[1] * b[1], a[2] * b[2])

FDiv(a, b) ==
    LET s == IF b[1] < 0 THEN -1 ELSE 1
    IN Norm(s * a[1] * b[2], a[2] * Abs(b[1]))

\* the comparisons the simulation makes: NaN compares false both ways
FGt0(a) == a[1] > 0
FEq0(a) == a = Zero

\* a > b and a < b on floats
FGt(a, b) ==
    IF a = NaN \/ b = NaN THEN FALSE
    ELSE IF a[2] = 0 /\ b[2] = 0 THEN a[1] > b[1]
    ELSE a[1] * b[2] > b[1] * a[2]

FLt(a, b) == FGt(b, a)

\* a >= b and a <= b
FGe(a, b) == a # NaN /\ b # NaN /\ ~FGt(b, a)

FLe(a, b) == FGe(b, a)

\* the builtin max(a, b): b only if b > a
PyMax(a, b) == IF FGt(b, a) THEN b ELSE a

\* the builtin max(list) of a non-empty list
RECURSIVE PyMaxList(_)
PyMaxList(xs) ==
    IF Len(xs) = 1 THEN xs[1]
    ELSE PyMax(PyMaxList(SubSeq(xs, 1, Len(xs) - 1)), xs[Len(xs)])

RECURSIVE FSum(_)
FSum(xs) ==
    IF xs = <<>> THEN Zero
    ELSE FAdd(FSum(SubSeq(xs, 1, Len(xs) - 1)), xs[Len(xs)])

(* ------------------------------ state ---------------------------------- *)
VARIABLES
    \* Backtester._simulate_trading
    closes,             \* trading_data["Close"], bar k has timestamp Ts(k)
    signal,             \* trading_data["signal"] after join and fillna(0)
    initial_capital,    \* self.initial_capital
    position_size_pct,  \* self.position_size_pct
    stop_loss_pct,      \* self.stop_loss_pct
    take_profit_pct,    \* self.take_profit_pct
    twin,               \* a second Backtester given the same data, capital and
                        \* position size but other stop-loss / take-profit
                        \* percentages: its percentages and simulation state
    capital, position, entry_price, trades,
    bar,                \* index of the next row of iterrows()
    pc,                 \* "loop", "close", "stats", "returned", "raised"
    stats,              \* the dictionary _simulate_trading returns
    \* SignalDetector instances, the price source and signals.csv
    series,             \* per (symbol, timeframe): Signal column of the fetched data
    signals_history,    \* per detector: self.signals_history, a sequence of rows
    date_dtype,         \* per detector: dtype of signals_history['date']
    signals_file,       \* rows of signals.csv
    lastCall,           \* the operation performed last (history variable)
    \* threads calling detect_signals on one detector
    tpc, tkey, tsnap,
    \* Backtester.run_backtest
    run,                \* inputs and outcome of the run_backtest call
    results_file,       \* rows of the backtest summary file
    \* IndicatorCalculator
    df,                 \* the frame calculate_signals / get_last_signal work on
    missing,            \* per (symbol, timeframe): the OHLCV column the fetched
                        \* frame lacks, or "none"
    \* IndicatorCalculator.add_indicators
    price_data,         \* `data`, the caller's frame
    ema_period,         \* self.ema_period
    zlma_period,        \* self.zlma_period
    data_with_indicators,   \* what add_indicators returned
    \* MonitoringService and the notifier
    is_running,         \* self.is_running
    monitoring_thread,  \* self.monitoring_thread: <<t>> for thread t of loops
    loops,              \* every thread start() created, in order of creation
    messages            \* what discord_notifier.send_message was given

simVars == <<closes, signal, initial_capital, position_size_pct,
             capital, position, entry_price, trades, bar, pc, stats,
             stop_loss_pct, take_profit_pct, twin>>

logVars == <<series, signals_history, date_dtype, signals_file, lastCall>>

threadVars == <<tpc, tkey, tsnap>>

runVars == <<run, results_file>>

indVars == <<df, missing>>

addVars == <<price_data, ema_period, zlma_period, data_with_indicators>>

svcVars == <<is_running, monitoring_thread, loops, messages>>

vars == <<simVars, logVars, threadVars, runVars, indVars, addVars, svcVars>>

(* ------------------------- SignalDetector ------------------------------ *)
\* (symbol, timeframe) pairs passed to detect_signals
Keys == {<<"BTC", "1d">>, <<"ETH", "1d">>}

\* the dashboard's detector (shared with the monitoring service) and the
\* detector the Backtester builds for itself; both use config.DATA_DIR
Detectors == {"dashboard", "backtester"}

Threads == {"monitor", "callback"}

\* The Signal column IndicatorCalculator.add_indicators gives the fetched
\* data: bar 1 never carries a crossover (shift(1) is NaN there) and a
\* crossover is never followed at once by one of the same sign.
ValidSeries(s) ==
    /\ Len(s) > 0 => s[1] = 0
    /\ \A k \in 1..(Len(s) - 1) : s[k] # 0 => s[k + 1] # s[k]

AllSeries == {s \in UNION {[1..n -> {-1, 0, 1}] : n \in 0..MaxSeries} : ValidSeries(s)}

RECURSIVE LastNonZero(_, _)
LastNonZero(s, k) ==
    IF k = 0 THEN 0 ELSE IF s[k] # 0 THEN k ELSE LastNonZero(s, k - 1)

\* IndicatorCalculator.get_last_signal on a non-empty frame with a Signal
\* column; the date is the bar's index formatted '%Y-%m-%d'
GetLastSignal(s) ==
    LET k == LastNonZero(s, Len(s))
    IN IF k = 0 THEN [signal |-> 0, date |-> Len(s)]
       ELSE [signal |-> s[k], date |-> k]

\* A row of the log.  date is the day; rep is how the cell holds it:
\*   "str"   the text 'YYYY-MM-DD' (signal_info['date'])
\*   "long"  the text 'YYYY-MM-DD 00:00:00' (str() of a Timestamp)
\*   "ts"    a pandas Timestamp
\* price, current_price and timestamp are written but never read back by
\* the detector and are left out.
Row(key, sig, date, rep) ==
    [symbol |-> key[1], timeframe |-> key[2], date |-> date, rep |-> rep,
     signal |-> sig]

\* one cell of `self.signals_history['date'] == signal_info['date']`:
\* a datetime64 column parses the text and compares days, an object column
\* compares cell by cell, where only an equal text is equal
DateCellEq_Timestamp(row, dtype, date) ==
    IF dtype = "datetime64" THEN row.date = date
    ELSE row.rep = "ts" /\ row.date = date

DateCellEq(row, dtype, date) ==
    IF dtype = "datetime64" THEN row.date = date
    ELSE row.rep = "str" /\ row.date = date

\* `existing` of _save_signal is not empty
Existing(hist, dtype, key, sig, date) ==
    \E i \in 1..Len(hist) :
        /\ hist[i].symbol = key[1]
        /\ hist[i].timeframe = key[2]
        /\ DateCellEq(hist[i], dtype, date)
        /\ hist[i].signal = sig

\* pd.concat([self.signals_history, pd.DataFrame([new_signal])])
Concat(hist, key, sig, date) == Append(hist, Row(key, sig, date, "str"))

\* to_csv of a frame whose date column is object: text as it is, a
\* Timestamp through str()
ToCsv(hist) ==
    [i \in 1..Len(hist) |->
        [hist[i] EXCEPT !.rep = IF @ = "ts" THEN "long" ELSE @]]

\* pd.to_datetime(self.signals_history['date'])
ToDatetime(hist) == [i \in 1..Len(hist) |-> [hist[i] EXCEPT !.rep = "ts"]]

\* the column holds texts of both formats: pandas 2 infers the format from
\* the first cell and raises ValueError on the other, pandas 1 parses each
MixedText(hist) ==
    /\ \E i \in 1..Len(hist) : hist[i].rep = "str"
    /\ \E i \in 1..Len(hist) : hist[i].rep = "long"

NoCall == [kind |-> "none", det |-> "", key |-> <<>>, again |-> FALSE,
           appended |-> FALSE, result |-> None]

LogIdle ==
    /\ series = [k \in Keys |-> <<>>]
    /\ signals_history = [d \in Detectors |-> <<>>]
    /\ date_dtype = [d \in Detectors |-> "object"]
    /\ signals_file = <<>>
    /\ lastCall = NoCall

ThreadIdle ==
    /\ tpc = [t \in Threads |-> "idle"]
    /\ tkey = [t \in Threads |-> <<>>]
    /\ tsnap = [t \in Threads |-> <<>>]

\* no run_backtest call in progress, no backtest summary file yet
NoRun == [phase |-> "none"]

RunIdle ==
    /\ run = NoRun
    /\ results_file = <<>>

\* the columns add_indicators requires
Columns == {"Open", "High", "Low", "Close", "Volume"}

\* every fetched frame has all of them
AllColumns == missing = [k \in Keys |-> "none"]

\* no frame under the IndicatorCalculator
IndIdle ==
    /\ df = <<>>
    /\ AllColumns

\* add_indicators not called: a calculator with the periods of
\* config.INDICATOR_CONFIG and no frame
AddIdle ==
    /\ price_data = None
    /\ ema_period = 15
    /\ zlma_period = 15
    /\ data_with_indicators = None

\* MonitoringService.__init__: not running, no thread; nothing sent yet
SvcIdle ==
    /\ is_running = FALSE
    /\ monitoring_thread = None
    /\ loops = <<>>
    /\ messages = <<>>

(* ------------------------ IndicatorCalculator -------------------------- *)
\* values of the EMA and ZLMA columns: NaN (np.nan after a failed
\* calculation, or a NaN close) and a few levels
Levels == {NaN} \cup {Num(v) : v \in 0..MaxLevel}

\* Series.shift(1): the value of the row before, NaN in the first row
Shift_Fill(col) == [k \in 1..Len(col) |-> IF k = 1 THEN Zero ELSE col[k - 1]]

Shift(col) == [k \in 1..Len(col) |-> IF k = 1 THEN NaN ELSE col[k - 1]]

\* one row of bullish_cross and of bearish_cross
BullishCross_Strict(z, e, zp, ep) == FGt(z, e) /\ FLt(zp, ep)

BullishCross(z, e, zp, ep) == FGt(z, e) /\ FLe(zp, ep)

BearishCross(z, e, zp, ep) == FLt(z, e) /\ FGe(zp, ep)

\* IndicatorCalculator.calculate_signals on a frame with EMA and ZLMA
CalculateSignals(f) ==
    LET zp == Shift(f.ZLMA)
        ep == Shift(f.EMA)
        zeros == [k \in 1..Len(f.index) |-> 0]
        bull == [k \in 1..Len(f.index) |->
                    IF BullishCross(f.ZLMA[k], f.EMA[k], zp[k], ep[k])
                    THEN 1 ELSE zeros[k]]
    IN [k \in 1..Len(f.index) |->
           IF BearishCross(f.ZLMA[k], f.EMA[k], zp[k], ep[k])
           THEN -1 ELSE bull[k]]

\* the Trend column of add_indicators
TrendColumn_NoNeutral(f) ==
    [k \in 1..Len(f.index) |-> IF FLt(f.ZLMA[k], f.EMA[k]) THEN -1 ELSE 1]

TrendColumn(f) ==
    [k \in 1..Len(f.index) |->
        IF FLt(f.ZLMA[k], f.EMA[k]) THEN -1
        ELSE IF FGt(f.ZLMA[k], f.EMA[k]) THEN 1 ELSE 0]

\* rows of data[data['Signal'] != 0], in the order of the frame
NonZeroRows(f) == SelectSeq([k \in 1..Len(f.index) |-> k],
                            LAMBDA k : f.Signal[k] # 0)

RowInfo(f, k, sig) ==
    [signal |-> sig, date |-> BarOf(f.index[k]), price |-> f.Close[k],
     trend |-> f.Trend[k]]

\* which of the rows with a signal get_last_signal takes: signals.iloc[-1]
PickRow_First(rows) == rows[1]

PickRow(rows) == rows[Len(rows)]

\* IndicatorCalculator.get_last_signal
LastSignalOf(f) ==
    IF f.index = <<>> \/ f.Signal = None
    THEN [signal |-> 0, date |-> None, price |-> None]
    ELSE LET rows == NonZeroRows(f)
         IN IF rows = <<>>
            THEN RowInfo(f, Len(f.index), 0)
            ELSE RowInfo(f, PickRow(rows), f.Signal[PickRow(rows)])

\* a frame of n bars in the order the source returns them (ascending
\* timestamps); bar k closes at k, so that a price names its bar
Frame(n, ema, zlma) ==
    [index |-> [k \in 1..n |-> Ts(k)], Close |-> [k \in 1..n |-> Num(k)],
     EMA |-> ema, ZLMA |-> zlma, Signal |-> None, Trend |-> None,
     last_signal |-> None, step |-> "indicators"]

(* --------------------- Backtester._simulate_trading -------------------- *)
Prices == {Num(p) : p \in 0..MaxPrice}
Signals == {-1, 0, 1}
InitialCapitals == {Zero, Num(4)}
PositionSizePcts == {Zero, <<1, 2>>, Num(1)}

\* config.BACKTEST_CONFIG["stop_loss_pct"], ["take_profit_pct"]
DefaultStopLoss == <<1, 20>>
DefaultTakeProfit == <<1, 10>>

\* other (stop_loss_pct, take_profit_pct) a Backtester can be constructed
\* with
OtherPcts == {<<<<1, 2>>, Num(1)>>, <<Num(1), <<1, 2>>>>}

PositionSize(cap, pct) == FMul(cap, pct)

Units(cap, pct, price) == FDiv(PositionSize(cap, pct), price)

Pnl(pos, price, entry) == FMul(pos, FSub(price, entry))

PnlPct(pnl, pos, entry) == FMul(FDiv(pnl, FMul(pos, entry)), Hundred)

UpdateCapital_Stale(cap, pnl) == cap

UpdateCapital(cap, pnl) == FAdd(cap, pnl)

NewTrade(date, price, pos, cap) ==
    [date_entry |-> date, price_entry |-> price, position |-> pos,
     direction |-> "LONG", date_exit |-> None, price_exit |-> None,
     pnl |-> None, pnl_pct |-> None, capital |-> cap]

\* trades[-1].update({...})
UpdateLast(ts, date, price, pnl, pct, cap) ==
    [ts EXCEPT ![Len(ts)] =
        [@ EXCEPT !.date_exit = date, !.price_exit = price, !.pnl = pnl,
                  !.pnl_pct = pct, !.capital = cap]]

\* `if position > 0 and current_signal == -1`: the test of the exit branch,
\* with everything in scope at that line; neither percentage is read
ShouldExit_StopLoss(pos, current_signal, current_price, entry, sl, tp) ==
    /\ FGt0(pos)
    /\ \/ current_signal = -1
       \/ ~FGt(current_price, FMul(entry, FSub(Num(1), sl)))

ShouldExit(pos, current_signal, current_price, entry, sl, tp) ==
    FGt0(pos) /\ current_signal = -1

\* the twin's simulation state before its loop
TwinStart(sl, tp, cap) ==
    [stop_loss_pct |-> sl, take_profit_pct |-> tp, capital |-> cap,
     position |-> Zero, entry_price |-> Zero, trades |-> <<>>, stats |-> None]

\* the twin's iteration of the loop on the same row
TwinBar(tw, k) ==
    LET current_price == closes[k]
        current_signal == signal[k]
    IN IF ShouldExit(tw.position, current_signal, current_price, tw.entry_price,
                     tw.stop_loss_pct, tw.take_profit_pct)
       THEN LET pnl == Pnl(tw.position, current_price, tw.entry_price)
                cap == UpdateCapital(tw.capital, pnl)
            IN [tw EXCEPT !.capital = cap,
                          !.trades = UpdateLast(tw.trades, Ts(k), current_price,
                                         pnl, PnlPct(pnl, tw.position, tw.entry_price),
                                         cap),
                          !.position = Zero,
                          !.entry_price = Zero]
       ELSE IF FEq0(tw.position) /\ current_signal = 1
       THEN LET pos == Units(tw.capital, position_size_pct, current_price)
            IN [tw EXCEPT !.position = pos,
                          !.entry_price = current_price,
                          !.trades = Append(tw.trades,
                                        NewTrade(Ts(k), current_price, pos,
                                                 tw.capital))]
       ELSE tw

\* the twin's `if position > 0:` after the loop
TwinForceClose(tw) ==
    IF FGt0(tw.position)
    THEN LET current_price == closes[Len(closes)]
             pnl == Pnl(tw.position, current_price, tw.entry_price)
             cap == UpdateCapital(tw.capital, pnl)
         IN [tw EXCEPT !.capital = cap,
                       !.trades = UpdateLast(tw.trades, Ts(Len(closes)),
                                      current_price, pnl,
                                      PnlPct(pnl, tw.position, tw.entry_price), cap)]
    ELSE tw

SimInit ==
    /\ \E n \in 0..MaxBars :
          /\ closes \in [1..n -> Prices]
          /\ signal \in [1..n -> Signals]
    /\ initial_capital \in InitialCapitals
    /\ position_size_pct \in PositionSizePcts
    /\ capital = initial_capital
    /\ position = Zero
    /\ entry_price = Zero
    /\ trades = <<>>
    /\ bar = 1
    /\ pc = "loop"
    /\ stats = None
    /\ stop_loss_pct = DefaultStopLoss
    /\ take_profit_pct = DefaultTakeProfit
    /\ \E other \in OtherPcts :
          twin = TwinStart(other[1], other[2], initial_capital)
    /\ LogIdle
    /\ ThreadIdle
    /\ RunIdle
    /\ IndIdle
    /\ AddIdle
    /\ SvcIdle

\* one iteration of `for i, row in trading_data.iterrows()`
SimBar ==
    /\ pc = "loop"
    /\ bar <= Len(closes)
    /\ LET current_price == closes[bar]
           current_signal == signal[bar]
       IN IF ShouldExit(position, current_signal, current_price, entry_price,
                        stop_loss_pct, take_profit_pct)
          THEN LET pnl == Pnl(position, current_price, entry_price)
                   cap == UpdateCapital(capital, pnl)
               IN /\ capital' = cap
                  /\ trades' = UpdateLast(trades, Ts(bar), current_price, pnl,
                                   PnlPct(pnl, position, entry_price), cap)
                  /\ position' = Zero
                  /\ entry_price' = Zero
          ELSE IF FEq0(position) /\ current_signal = 1
          THEN /\ position' = Units(capital, position_size_pct, current_price)
               /\ entry_price' = current_price
               /\ trades' = Append(trades,
                               NewTrade(Ts(bar), current_price, position', capital))
               /\ UNCHANGED capital
          ELSE UNCHANGED <<capital, position, entry_price, trades>>
    /\ bar' = bar + 1
    /\ twin' = TwinBar(twin, bar)
    /\ UNCHANGED <<closes, signal, initial_capital, position_size_pct, pc, stats,
                   stop_loss_pct, take_profit_pct>>
    /\ UNCHANGED <<logVars, threadVars, runVars, indVars, addVars, svcVars>>

SimLoopEnd ==
    /\ pc = "loop"
    /\ bar > Len(closes)
    /\ pc' = "close"
    /\ UNCHANGED <<closes, signal, initial_capital, position_size_pct,
                   capital, position, entry_price, trades, bar, stats,
                   stop_loss_pct, take_profit_pct, twin>>
    /\ UNCHANGED <<logVars, threadVars, runVars, indVars, addVars, svcVars>>

\* `if position > 0:` after the loop
SimForceClose ==
    /\ pc = "close"
    /\ IF FGt0(position)
       THEN LET current_price == closes[Len(closes)]
                pnl == Pnl(position, current_price, entry_price)
                cap == UpdateCapital(capital, pnl)
            IN /\ capital' = cap
               /\ trades' = UpdateLast(trades, Ts(Len(closes)), current_price, pnl,
                                PnlPct(pnl, position, entry_price), cap)
       ELSE UNCHANGED <<capital, trades>>
    /\ pc' = "stats"
    /\ twin' = TwinForceClose(twin)
    /\ UNCHANGED <<closes, signal, initial_capital, position_size_pct,
                   position, entry_price, bar, stats, stop_loss_pct,
                   take_profit_pct>>
    /\ UNCHANGED <<logVars, threadVars, runVars, indVars, addVars, svcVars>>

\* trades_df[trades_df["pnl"] > 0] and [... < 0]: a null pnl compares false
IsWinning(t) == t.pnl # None /\ FGt(t.pnl, Zero)

IsLosing_NonPositive(t) == t.pnl # None /\ ~FGt(t.pnl, Zero)

IsLosing(t) == t.pnl # None /\ FLt(t.pnl, Zero)

WinningTrades(ts) == SelectSeq(ts, IsWinning)

LosingTrades(ts) == SelectSeq(ts, IsLosing)

\* winning_trades["pnl"].mean() of a non-empty selection
MeanPnl(ts) == FDiv(FSum([k \in 1..Len(ts) |-> ts[k].pnl]), Num(Len(ts)))

TotalReturn(cap, init) == FMul(FSub(FDiv(cap, init), Num(1)), Hundred)

WinRate(w, n) == FMul(FDiv(Num(w), Num(n)), Hundred)

\* _calculate_max_drawdown: one iteration of the loop over the trades
RunningPeak_Initial(peak, current_capital) == peak

RunningPeak(peak, current_capital) == PyMax(peak, current_capital)

Drawdown(peak, current_capital) ==
    FMul(FDiv(FSub(peak, current_capital), peak), Hundred)

\* the list `drawdowns` after the loop over the rows k..Len(ts)
RECURSIVE Drawdowns(_, _, _)
Drawdowns(ts, k, peak) ==
    IF k > Len(ts) THEN <<>>
    ELSE LET p == RunningPeak(peak, ts[k].capital)
         IN <<Drawdown(p, ts[k].capital)>> \o Drawdowns(ts, k + 1, p)

CalculateMaxDrawdown(ts, init) ==
    IF ts = <<>> THEN Zero ELSE PyMaxList(Drawdowns(ts, 1, init))

\* `stats` of _simulate_trading
Stats_NoGuard(ts, cap, init) ==
    LET w == WinningTrades(ts)
        l == LosingTrades(ts)
    IN [initial_capital |-> init,
        final_capital |-> cap,
        total_return |-> TotalReturn(cap, init),
        total_trades |-> Len(ts),
        winning_trades |-> Len(w),
        losing_trades |-> Len(l),
        win_rate |-> IF ts # <<>> THEN WinRate(Len(w), Len(ts)) ELSE Zero,
        avg_win |-> IF w # <<>> THEN MeanPnl(w) ELSE Zero,
        avg_loss |-> IF l # <<>> THEN MeanPnl(l) ELSE Zero,
        max_drawdown |-> CalculateMaxDrawdown(ts, init),
        trades |-> ts]

Stats(ts, cap, init) ==
    IF ts # <<>>
    THEN LET w == WinningTrades(ts)
             l == LosingTrades(ts)
         IN [initial_capital |-> init,
             final_capital |-> cap,
             total_return |-> TotalReturn(cap, init),
             total_trades |-> Len(ts),
             winning_trades |-> Len(w),
             losing_trades |-> Len(l),
             win_rate |-> WinRate(Len(w), Len(ts)),
             avg_win |-> IF w # <<>> THEN MeanPnl(w) ELSE Zero,
             avg_loss |-> IF l # <<>> THEN MeanPnl(l) ELSE Zero,
             max_drawdown |-> CalculateMaxDrawdown(ts, init),
             trades |-> ts]
    ELSE [initial_capital |-> init,
          final_capital |-> cap,
          total_return |-> Zero,
          total_trades |-> 0,
          winning_trades |-> 0,
          losing_trades |-> 0,
          win_rate |-> Zero,
          avg_win |-> Zero,
          avg_loss |-> Zero,
          max_drawdown |-> Zero,
          trades |-> <<>>]

\* `capital / self.initial_capital` on two Python numbers raises
\* ZeroDivisionError; capital is a numpy scalar once a trade was closed
StatsRaises ==
    /\ trades # <<>>
    /\ initial_capital = Zero
    /\ \A k \in 1..Len(trades) : trades[k].pnl = None

TwinStatsRaises(tw) ==
    /\ tw.trades # <<>>
    /\ initial_capital = Zero
    /\ \A k \in 1..Len(tw.trades) : tw.trades[k].pnl = None

SimStats ==
    /\ pc = "stats"
    /\ pc' = IF StatsRaises THEN "raised" ELSE "returned"
    /\ stats' = IF StatsRaises THEN None
                ELSE Stats(trades, capital, initial_capital)
    /\ twin' = [twin EXCEPT !.stats =
                    IF TwinStatsRaises(twin) THEN None
                    ELSE Stats(twin.trades, twin.capital, initial_capital)]
    /\ UNCHANGED <<closes, signal, initial_capital, position_size_pct,
                   capital, position, entry_price, trades, bar,
                   stop_loss_pct, take_profit_pct>>
    /\ UNCHANGED <<logVars, threadVars, runVars, indVars, addVars, svcVars>>

SimNext == SimBar \/ SimLoopEnd \/ SimForceClose \/ SimStats

SpecSim == SimInit /\ [][SimNext]_vars

(* --------------------- operations on the signal log -------------------- *)
SimIdle ==
    /\ closes = <<>>
    /\ signal = <<>>
    /\ initial_capital = Zero
    /\ position_size_pct = Zero
    /\ capital = Zero
    /\ position = Zero
    /\ entry_price = Zero
    /\ trades = <<>>
    /\ bar = 1
    /\ pc = "idle"
    /\ stats = None
    /\ stop_loss_pct = DefaultStopLoss
    /\ take_profit_pct = DefaultTakeProfit
    /\ twin = None

LogInit ==
    /\ SimIdle
    /\ LogIdle
    /\ ThreadIdle
    /\ RunIdle
    /\ IndIdle
    /\ AddIdle
    /\ SvcIdle

\* the price source returns one more bar for `key`
NewBar(key) ==
    /\ Len(series[key]) < MaxSeries
    /\ \E v \in {-1, 0, 1} :
          /\ ValidSeries(Append(series[key], v))
          /\ series' = [series EXCEPT ![key] = Append(@, v)]
    /\ lastCall' = NoCall
    /\ UNCHANGED <<signals_history, date_dtype, signals_file>>
    /\ UNCHANGED <<simVars, threadVars, runVars, indVars, addVars, svcVars>>

\* SignalDetector._save_signal: the rows after the call, given the rows and
\* dtype before it
SaveSignalAppends(hist, dtype, key, last) ==
    /\ last.signal # 0
    /\ ~Existing(hist, dtype, key, last.signal, last.date)

\* what detect_signals returns on an empty frame
NoDataResult(key) == [symbol |-> key[1], signals |-> <<>>, last_signal |-> None]

\* get_last_signal and get_all_signals on a frame without a Signal column
\* (add_indicators gave the frame back as it was)
RawLastSignal == [signal |-> 0, date |-> None, price |-> None]

\* the bars of get_all_signals
AllSignals(data) == SelectSeq([k \in 1..Len(data) |-> k],
                              LAMBDA k : data[k] # 0)

\* `result` of detect_signals; last_update is the clock and is left out,
\* the last price is named by its bar
DetectResult(key, data, raw) ==
    LET all_signals == IF raw THEN <<>> ELSE AllSignals(data)
    IN [symbol |-> key[1], timeframe |-> key[2],
        signals_count |-> Len(all_signals),
        bullish_signals |-> Len(SelectSeq(all_signals, LAMBDA k : data[k] = 1)),
        bearish_signals |-> Len(SelectSeq(all_signals, LAMBDA k : data[k] = -1)),
        last_signal |-> IF raw THEN RawLastSignal ELSE GetLastSignal(data),
        last_price |-> Len(data),
        all_signals |-> all_signals]

\* detect_signals left by an exception: data['Close'] of a frame without
\* that column
Raised(e) == [raised |-> e]

\* whether building `result` raises
ResultRaises(data, col) == data # <<>> /\ col = "Close"

\* SignalDetector.detect_signals(symbol, timeframe) on detector d
DetectSignals(d, key) ==
    LET data == series[key]
        raw == missing[key] # "none"
        last == IF raw THEN RawLastSignal ELSE GetLastSignal(data)
        hist == signals_history[d]
        raises == ResultRaises(data, missing[key])
        appends == /\ data # <<>>
                   /\ ~raises
                   /\ SaveSignalAppends(hist, date_dtype[d], key, last)
        again == lastCall.kind = "detect" /\ lastCall.det = d /\ lastCall.key = key
        result == IF data = <<>> THEN NoDataResult(key)
                  ELSE IF raises THEN Raised("KeyError")
                  ELSE DetectResult(key, data, raw)
    IN /\ appends => Len(hist) < MaxLog
       /\ IF appends
          THEN /\ signals_history' = [signals_history EXCEPT
                      ![d] = Concat(hist, key, last.signal, last.date)]
               /\ date_dtype' = [date_dtype EXCEPT ![d] = "object"]
               /\ signals_file' = ToCsv(signals_history'[d])
          ELSE UNCHANGED <<signals_history, date_dtype, signals_file>>
       /\ lastCall' = [kind |-> "detect", det |-> d, key |-> key, again |-> again,
                       appended |-> IF again THEN lastCall.appended ELSE appends,
                       result |-> result]
       /\ UNCHANGED series
       /\ UNCHANGED <<simVars, threadVars, runVars, indVars, addVars, svcVars>>

\* the source holds any series and its frames may lack a column
DetectInit ==
    /\ SimIdle
    /\ ThreadIdle
    /\ RunIdle
    /\ df = <<>>
    /\ AddIdle
    /\ SvcIdle
    /\ series \in [Keys -> AllSeries]
    /\ missing \in [Keys -> {"none"} \cup Columns]
    /\ signals_history = [d \in Detectors |-> <<>>]
    /\ date_dtype = [d \in Detectors |-> "object"]
    /\ signals_file = <<>>
    /\ lastCall = NoCall

DetectNext == \E key \in Keys : DetectSignals("dashboard", key)

SpecDetect == DetectInit /\ [][DetectNext]_vars

\* what get_signals_summary returns for an empty log
EmptySummary ==
    [total_signals |-> 0, bullish_signals |-> 0, bearish_signals |-> 0,
     latest_signals |-> <<>>]

\* one more row put into rows sorted by falling date: behind every row of
\* the same or a later date
InsertByDate(sorted, row) ==
    LET later == SelectSeq(sorted, LAMBDA r : r.date >= row.date)
        earlier == SelectSeq(sorted, LAMBDA r : r.date < row.date)
    IN later \o <<row>> \o earlier

\* sort_values('date', ascending=False): rows of one date keep the order of
\* the log
RECURSIVE SortByDateDesc(_)
SortByDateDesc(rows) ==
    IF rows = <<>> THEN <<>>
    ELSE InsertByDate(SortByDateDesc(SubSeq(rows, 1, Len(rows) - 1)),
                      rows[Len(rows)])

\* DataFrame.head(n)
HeadRows(rows, n) == SubSeq(rows, 1, IF Len(rows) < n THEN Len(rows) ELSE n)

\* the dictionary get_signals_summary returns for a log that is not empty,
\* its date column converted
SummaryOf(hist) ==
    [total_signals |-> Len(hist),
     bullish_signals |-> Len(SelectSeq(hist, LAMBDA r : r.signal = 1)),
     bearish_signals |-> Len(SelectSeq(hist, LAMBDA r : r.signal = -1)),
     latest_signals |-> HeadRows(SortByDateDesc(hist), 10)]

\* the ways a call of get_signals_summary on the log `hist` can end: the
\* log it leaves, whether the date column was converted, what it returns
SummaryOutcomes(hist) ==
    IF hist = <<>>
    THEN {[history |-> hist, converted |-> FALSE, result |-> EmptySummary]}
    ELSE {[history |-> ToDatetime(hist), converted |-> TRUE,
           result |-> SummaryOf(ToDatetime(hist))]}
         \cup (IF MixedText(hist)
               THEN {[history |-> hist, converted |-> FALSE,
                      result |-> Raised("ValueError")]}
               ELSE {})

\* SignalDetector.get_signals_summary on detector d
GetSignalsSummary(d) ==
    /\ \E o \in SummaryOutcomes(signals_history[d]) :
          /\ signals_history' = [signals_history EXCEPT ![d] = o.history]
          /\ date_dtype' = [date_dtype EXCEPT
                               ![d] = IF o.converted THEN "datetime64" ELSE @]
          /\ lastCall' = [NoCall EXCEPT !.kind = "summary", !.det = d,
                                        !.result = o.result]
    /\ UNCHANGED <<series, signals_file>>
    /\ UNCHANGED <<simVars, threadVars, runVars, indVars, addVars, svcVars>>

\* SignalDetector.__init__ -> _load_signals_history: detector d is built
\* again (a restart) and reads signals.csv; read_csv leaves dates as text
LoadSignalsHistory(d) ==
    /\ signals_history' = [signals_history EXCEPT ![d] = signals_file]
    /\ date_dtype' = [date_dtype EXCEPT ![d] = "object"]
    /\ lastCall' = [NoCall EXCEPT !.kind = "load", !.det = d]
    /\ UNCHANGED <<series, signals_file>>
    /\ UNCHANGED <<simVars, threadVars, runVars, indVars, addVars, svcVars>>

\* Dashboard.__init__: a restart of the application builds the dashboard's
\* detector and the Backtester's own detector; each reads signals.csv
Restart ==
    /\ signals_history' = [d \in Detectors |-> signals_file]
    /\ date_dtype' = [d \in Detectors |-> "object"]
    /\ lastCall' = [NoCall EXCEPT !.kind = "load"]
    /\ UNCHANGED <<series, signals_file>>
    /\ UNCHANGED <<simVars, threadVars, runVars, indVars, addVars, svcVars>>

\* one detector: the dashboard's, which the monitoring service shares
LogNext ==
    \/ \E key \in Keys : NewBar(key)
    \/ \E key \in Keys : DetectSignals("dashboard", key)
    \/ GetSignalsSummary("dashboard")
    \/ LoadSignalsHistory("dashboard")

SpecLog == LogInit /\ [][LogNext]_vars

\* both detectors of a Dashboard on the one signals.csv: the Backtester's is
\* only ever asked to detect_signals (run_backtest)
SharedNext ==
    \/ \E key \in Keys : NewBar(key)
    \/ \E d \in Detectors, key \in Keys : DetectSignals(d, key)
    \/ GetSignalsSummary("dashboard")
    \/ Restart

SpecShared == LogInit /\ [][SharedNext]_vars

(* -------------------------- MonitoringService -------------------------- *)
\* seconds: self.monitoring_thread.join(timeout=5) and time.sleep(60)
JoinTimeout == 5

LoopSleep == 60

\* the thread start() creates: it begins with update_all_crypto_data and
\* check_signals; `ran` is the number of threads that existed when it last
\* called schedule.run_pending()
NewLoop == [pc |-> "initial", wake |-> 0, ran |-> 0]

\* `while self.is_running:` tested by a thread when `count` threads exist:
\* run_pending and sleep, or the end of _run
LoopTest(l, running, count) ==
    IF running THEN [pc |-> "sleeping", wake |-> LoopSleep, ran |-> count]
    ELSE [l EXCEPT !.pc = "exited", !.wake = 0]

\* dt seconds pass: a sleeping thread sleeps on or wakes and tests the flag
Advance(ls, dt, running) ==
    [t \in 1..Len(ls) |->
        IF ls[t].pc # "sleeping" THEN ls[t]
        ELSE IF ls[t].wake <= dt THEN LoopTest(ls[t], running, Len(ls))
        ELSE [ls[t] EXCEPT !.wake = @ - dt]]

\* MonitoringService.start()
Start ==
    IF is_running
    THEN UNCHANGED vars
    ELSE /\ Len(loops) < MaxThreads
         /\ is_running' = TRUE
         /\ loops' = Append(loops, NewLoop)
         /\ monitoring_thread' = <<Len(loops) + 1>>
         /\ messages' = Append(messages, "started")
         /\ UNCHANGED <<simVars, logVars, threadVars, runVars, indVars, addVars>>

\* MonitoringService.stop(): join returns when the thread has ended or
\* after JoinTimeout seconds
Stop ==
    IF ~is_running
    THEN UNCHANGED vars
    ELSE /\ is_running' = FALSE
         /\ loops' = IF monitoring_thread = None
                        \/ loops[monitoring_thread[1]].pc = "exited"
                     THEN loops
                     ELSE Advance(loops, JoinTimeout, FALSE)
         /\ messages' = Append(messages, "stopped")
         /\ UNCHANGED monitoring_thread
         /\ UNCHANGED <<simVars, logVars, threadVars, runVars, indVars, addVars>>

\* _run: update_all_crypto_data and check_signals are done, the thread
\* reaches the loop
FinishInitial(t) ==
    /\ loops[t].pc = "initial"
    /\ loops' = [loops EXCEPT ![t] = LoopTest(@, is_running, Len(loops))]
    /\ UNCHANGED <<is_running, monitoring_thread, messages>>
    /\ UNCHANGED <<simVars, logVars, threadVars, runVars, indVars, addVars>>

\* JoinTimeout seconds pass with no call of start() or stop()
Tick ==
    /\ \E t \in 1..Len(loops) : loops[t].pc = "sleeping"
    /\ loops' = Advance(loops, JoinTimeout, is_running)
    /\ UNCHANGED <<is_running, monitoring_thread, messages>>
    /\ UNCHANGED <<simVars, logVars, threadVars, runVars, indVars, addVars>>

\* toggle_monitoring calls start() and stop(); the threads run
ServiceNext ==
    \/ Start
    \/ Stop
    \/ \E t \in 1..Len(loops) : FinishInitial(t)
    \/ Tick

SpecService == LogInit /\ [][ServiceNext]_vars

\* the message send_status_report builds from the summary, or the exception
\* that ends the attempt
StatusMessage(summary) ==
    IF summary = Raised("ValueError") THEN summary
    ELSE IF "last_signal_date" \notin DOMAIN summary THEN Raised("KeyError")
    ELSE [bullish_signals |-> summary.bullish_signals,
          bearish_signals |-> summary.bearish_signals,
          last_signal_date |-> summary.last_signal_date]

\* MonitoringService.send_status_report() on the service's detector d
SendStatusReport(d) ==
    /\ \E o \in SummaryOutcomes(signals_history[d]) :
          /\ signals_history' = [signals_history EXCEPT ![d] = o.history]
          /\ date_dtype' = [date_dtype EXCEPT
                               ![d] = IF o.converted THEN "datetime64" ELSE @]
          /\ lastCall' = [NoCall EXCEPT !.kind = "report", !.det = d,
                                        !.result = o.result]
          /\ messages' = IF StatusMessage(o.result) \in {Raised("ValueError"),
                                                         Raised("KeyError")}
                         THEN messages
                         ELSE Append(messages, StatusMessage(o.result))
    /\ UNCHANGED <<series, signals_file>>
    /\ UNCHANGED <<is_running, monitoring_thread, loops>>
    /\ UNCHANGED <<simVars, threadVars, runVars, indVars, addVars>>

\* the monitoring service on the dashboard's detector: check_signals calls
\* detect_signals, the schedule calls send_status_report
ReportNext ==
    \/ \E key \in Keys : NewBar(key)
    \/ \E key \in Keys : DetectSignals("dashboard", key)
    \/ SendStatusReport("dashboard")
    \/ LoadSignalsHistory("dashboard")

SpecReport == LogInit /\ [][ReportNext]_vars

(* ------------- IndicatorCalculator on one frame ------------------------ *)
IndInit ==
    /\ SimIdle
    /\ LogIdle
    /\ ThreadIdle
    /\ RunIdle
    /\ \E n \in 0..MaxFrame :
          \E ema \in [1..n -> Levels], zlma \in [1..n -> Levels] :
              df = Frame(n, ema, zlma)
    /\ AllColumns
    /\ AddIdle
    /\ SvcIdle

\* add_indicators: df['Signal'] = self.calculate_signals(df)
AddSignal ==
    /\ df.step = "indicators"
    /\ df' = [df EXCEPT !.Signal = CalculateSignals(df), !.step = "signals"]
    /\ UNCHANGED <<simVars, logVars, threadVars, runVars, missing,
                   addVars, svcVars>>

\* add_indicators: the Trend column
AddTrend ==
    /\ df.step = "signals"
    /\ df' = [df EXCEPT !.Trend = TrendColumn(df), !.step = "trend"]
    /\ UNCHANGED <<simVars, logVars, threadVars, runVars, missing,
                   addVars, svcVars>>

\* get_last_signal(data_with_indicators)
CallGetLastSignal ==
    /\ df.step = "trend"
    /\ df' = [df EXCEPT !.last_signal = LastSignalOf(df), !.step = "done"]
    /\ UNCHANGED <<simVars, logVars, threadVars, runVars, missing,
                   addVars, svcVars>>

IndNext == AddSignal \/ AddTrend \/ CallGetLastSignal

SpecInd == IndInit /\ [][IndNext]_vars

(* ---------------- IndicatorCalculator.add_indicators ------------------ *)
\* periods a calculator is built with: the 15 of config.INDICATOR_CONFIG,
\* shorter ones, and 0, which ewm rejects
Periods == {0, 1, 3, 15}

\* the smoothing factor of ewm(span=period): 2 / (span + 1)
Alpha(period) == Norm(2, period + 1)

\* ewm(span=period) raises ValueError for a span below 1
EwmRaises(period) == period < 1

\* series.expanding().mean(): the plain mean of the values so far
RECURSIVE Ewm_Mean(_, _)
Ewm_Mean(xs, period) ==
    IF Len(xs) <= 1 THEN xs
    ELSE LET n == Len(xs)
             prev == Ewm_Mean(SubSeq(xs, 1, n - 1), period)
         IN Append(prev, FDiv(FAdd(xs[n], FMul(Num(n - 1), prev[n - 1])),
                              Num(n)))

\* series.ewm(span=period, adjust=False).mean() on finite values: the first
\* value is the first observation, then alpha * x + (1 - alpha) * previous
RECURSIVE Ewm(_, _)
Ewm(xs, period) ==
    IF Len(xs) <= 1 THEN xs
    ELSE LET n == Len(xs)
             prev == Ewm(SubSeq(xs, 1, n - 1), period)
         IN Append(prev, FAdd(FMul(Alpha(period), xs[n]),
                              FMul(FSub(Num(1), Alpha(period)), prev[n - 1])))

\* IndicatorCalculator.calculate_ema, where it does not raise
CalculateEma(xs, period) == Ewm(xs, period)

\* correction = series + (series - ema)
Correction_Final(xs, ema) ==
    [k \in 1..Len(xs) |->
        FAdd(xs[k], FSub(xs[k], ema[Len(xs)]))]

Correction(xs, ema) ==
    [k \in 1..Len(xs) |-> FAdd(xs[k], FSub(xs[k], ema[k]))]

\* IndicatorCalculator.calculate_zlma, where it does not raise
CalculateZlma(xs, period) ==
    CalculateEma(Correction(xs, CalculateEma(xs, period)), period)

\* df['EMA'] = np.nan, df['ZLMA'] = np.nan after a failed calculation
FailedColumn_Zero(n) == [k \in 1..n |-> Zero]

FailedColumn(n) == [k \in 1..n |-> NaN]

\* the frame the caller passes: bar k at Ts(k), the columns it has
PriceFrame(close, cols) ==
    [index |-> [k \in 1..Len(close) |-> Ts(k)], columns |-> cols,
     Close |-> IF "Close" \in cols THEN close ELSE None,
     EMA |-> None, ZLMA |-> None, Signal |-> None, Trend |-> None]

\* frames of the source: all of OHLCV, or one column short
FrameColumns == {Columns} \cup {Columns \ {c} : c \in Columns}

\* `for col in required_columns: if col not in df.columns` finds none
HasRequired_Close(f) == "Close" \in f.columns

HasRequired(f) == Columns \subseteq f.columns

\* IndicatorCalculator.add_indicators(data): the frame it returns
AddIndicators(f, ep, zp) ==
    IF ~HasRequired(f) THEN f
    ELSE LET n == Len(f.index)
             ema == IF EwmRaises(ep) THEN FailedColumn(n)
                    ELSE CalculateEma(f.Close, ep)
             zlma == IF EwmRaises(zp) THEN FailedColumn(n)
                     ELSE CalculateZlma(f.Close, zp)
             averaged == [f EXCEPT !.EMA = ema, !.ZLMA = zlma]
         IN [averaged EXCEPT
                !.Signal = CalculateSignals(averaged),
                !.Trend = TrendColumn(averaged),
                !.columns = @ \cup {"EMA", "ZLMA", "Signal", "Trend"}]

\* a calculator and a frame of finite non-negative closes
AddInit ==
    /\ SimIdle
    /\ LogIdle
    /\ ThreadIdle
    /\ RunIdle
    /\ IndIdle
    /\ SvcIdle
    /\ \E n \in 0..MaxCloses :
          \E close \in [1..n -> Prices], cols \in FrameColumns :
              price_data = PriceFrame(close, cols)
    /\ ema_period \in Periods
    /\ zlma_period \in Periods
    /\ data_with_indicators = None

\* data_with_indicators = self.indicator_calculator.add_indicators(data);
\* df = data.copy(): every write goes to the copy
CallAddIndicators ==
    /\ data_with_indicators = None
    /\ data_with_indicators' = AddIndicators(price_data, ema_period, zlma_period)
    /\ UNCHANGED <<price_data, ema_period, zlma_period>>
    /\ UNCHANGED <<simVars, logVars, threadVars, runVars, indVars, svcVars>>

AddNext == CallAddIndicators

SpecAdd == AddInit /\ [][AddNext]_vars

(* ----------------------- Backtester.run_backtest ---------------------- *)
\* the ticker and timeframe of the call
RunKey == <<"BTC", "1d">>

\* the Signal column add_indicators gives the bars the date filter kept:
\* the fetched frame's own when nothing was cut, otherwise recomputed on
\* the bars that are left
FilteredSignals(fetched, n) ==
    IF n = Len(fetched) THEN {fetched}
    ELSE {s \in [1..n -> {-1, 0, 1}] : ValidSeries(s)}

\* the call starts: `data` as fetched (series, missing), the bars left by
\* start_date / end_date (closes) and their signals
RunInit ==
    /\ series \in {f \in [Keys -> AllSeries] : \A k \in Keys \ {RunKey} : f[k] = <<>>}
    /\ missing \in {f \in [Keys -> {"none"} \cup Columns] :
                       \A k \in Keys \ {RunKey} : f[k] = "none"}
    /\ \E n \in 0..Len(series[RunKey]) :
          /\ (missing[RunKey] # "none") => n = 0
          /\ closes \in [1..n -> Prices]
          /\ signal \in FilteredSignals(series[RunKey], n)
    /\ initial_capital \in InitialCapitals
    /\ position_size_pct \in PositionSizePcts
    /\ capital = initial_capital
    /\ position = Zero
    /\ entry_price = Zero
    /\ trades = <<>>
    /\ bar = 1
    /\ pc = "loop"
    /\ stats = None
    /\ stop_loss_pct = DefaultStopLoss
    /\ take_profit_pct = DefaultTakeProfit
    /\ twin = TwinStart(DefaultStopLoss, DefaultTakeProfit, initial_capital)
    /\ signals_history = [d \in Detectors |-> <<>>]
    /\ date_dtype = [d \in Detectors |-> "object"]
    /\ signals_file = <<>>
    /\ lastCall = NoCall
    /\ ThreadIdle
    /\ df = <<>>
    /\ AddIdle
    /\ SvcIdle
    /\ run = [phase |-> "start", result |-> None]
    /\ results_file = <<>>

\* the two early returns of run_backtest
NoDataError == [success |-> FALSE, error |-> "Aucune donnee disponible"]

MissingColumnsError == [success |-> FALSE, error |-> "Colonnes manquantes"]

\* run_backtest up to the date filter and add_indicators
RunFetch ==
    /\ run.phase = "start"
    /\ run' = IF series[RunKey] = <<>>
              THEN [phase |-> "done", result |-> NoDataError]
              ELSE IF missing[RunKey] # "none"
              THEN [phase |-> "done", result |-> MissingColumnsError]
              ELSE [run EXCEPT !.phase = "run"]
    /\ UNCHANGED <<results_file, simVars, logVars, threadVars, indVars, addVars, svcVars>>

\* signal_result = self.signal_detector.detect_signals(ticker, timeframe),
\* on the Backtester's detector, with save_signals left at True
RunDetect ==
    /\ run.phase = "run"
    /\ lastCall.kind = "none"
    /\ DetectSignals("backtester", RunKey)

\* results = self._simulate_trading(data, signals)
RunSimulate ==
    /\ run.phase = "run"
    /\ lastCall.kind = "detect"
    /\ SimNext

\* the row _save_results appends to the backtest summary file
SummaryRow(key, results) ==
    [ticker |-> key[1], timeframe |-> key[2],
     initial_capital |-> results.initial_capital,
     final_capital |-> results.final_capital,
     total_return |-> results.total_return,
     total_trades |-> results.total_trades,
     winning_trades |-> results.winning_trades,
     losing_trades |-> results.losing_trades,
     win_rate |-> results.win_rate,
     max_drawdown |-> results.max_drawdown]

\* _save_results and the return, or the `except Exception` of run_backtest
RunFinish ==
    /\ run.phase = "run"
    /\ pc \in {"returned", "raised"}
    /\ IF pc = "returned"
       THEN /\ results_file' = Append(results_file, SummaryRow(RunKey, stats))
            /\ run' = [phase |-> "done",
                       result |-> [success |-> TRUE, results |-> stats]]
       ELSE /\ UNCHANGED results_file
            /\ run' = [phase |-> "done",
                       result |-> [success |-> FALSE, error |-> "division by zero"]]
    /\ UNCHANGED <<simVars, logVars, threadVars, indVars, addVars, svcVars>>

RunNext == RunFetch \/ RunDetect \/ RunSimulate \/ RunFinish

SpecRun == RunInit /\ [][RunNext]_vars

(* ------------- concurrent detect_signals on one detector --------------- *)
\* The monitoring thread (check_signals) and a dashboard callback
\* (update_watchlist) call detect_signals on the dashboard's detector; the
\* code takes no lock, so the steps of _save_signal interleave.
Shared == "dashboard"

ConcInit ==
    /\ SimIdle
    /\ series \in [Keys -> AllSeries]
    /\ signals_history = [d \in Detectors |-> <<>>]
    /\ date_dtype = [d \in Detectors |-> "object"]
    /\ signals_file = <<>>
    /\ lastCall = NoCall
    /\ ThreadIdle
    /\ RunIdle
    /\ IndIdle
    /\ AddIdle
    /\ SvcIdle

ThreadLast(t) == GetLastSignal(series[tkey[t]])

\* detect_signals up to the first lines of _save_signal: fetch, indicators,
\* last signal, the early returns on no data and on signal 0
ThreadCall(t, key) ==
    /\ tpc[t] = "idle"
    /\ tkey' = [tkey EXCEPT ![t] = key]
    /\ tpc' = [tpc EXCEPT ![t] =
          IF series[key] = <<>> \/ GetLastSignal(series[key]).signal = 0
          THEN "done" ELSE "check"]
    /\ UNCHANGED <<tsnap, logVars, simVars, runVars, indVars, addVars, svcVars>>

\* `existing = self.signals_history[...]`, `if not existing.empty: return`
ThreadCheck(t) ==
    /\ tpc[t] = "check"
    /\ tpc' = [tpc EXCEPT ![t] =
          IF Existing(signals_history[Shared], date_dtype[Shared], tkey[t],
                      ThreadLast(t).signal, ThreadLast(t).date)
          THEN "done" ELSE "concat"]
    /\ UNCHANGED <<tkey, tsnap, logVars, simVars, runVars, indVars, addVars, svcVars>>

\* pd.concat([self.signals_history, ...]) reads the attribute ...
ThreadConcat(t) ==
    /\ tpc[t] = "concat"
    /\ tsnap' = [tsnap EXCEPT ![t] =
          Concat(signals_history[Shared], tkey[t], ThreadLast(t).signal,
                 ThreadLast(t).date)]
    /\ tpc' = [tpc EXCEPT ![t] = "assign"]
    /\ UNCHANGED <<tkey, logVars, simVars, runVars, indVars, addVars, svcVars>>

\* ... and `self.signals_history = ` stores the result
ThreadAssign(t) ==
    /\ tpc[t] = "assign"
    /\ signals_history' = [signals_history EXCEPT ![Shared] = tsnap[t]]
    /\ date_dtype' = [date_dtype EXCEPT ![Shared] = "object"]
    /\ tpc' = [tpc EXCEPT ![t] = "save"]
    /\ UNCHANGED <<tkey, tsnap, series, signals_file, lastCall, simVars, runVars,
                   indVars, addVars, svcVars>>

\* self._save_signals_history()
ThreadSave(t) ==
    /\ tpc[t] = "save"
    /\ signals_file' = ToCsv(signals_history[Shared])
    /\ tpc' = [tpc EXCEPT ![t] = "done"]
    /\ UNCHANGED <<tkey, tsnap, series, signals_history, date_dtype, lastCall,
                   simVars, runVars, indVars, addVars, svcVars>>

ConcNext ==
    \/ \E t \in Threads, key \in Keys : ThreadCall(t, key)
    \/ \E t \in Threads : ThreadCheck(t)
    \/ \E t \in Threads : ThreadConcat(t)
    \/ \E t \in Threads : ThreadAssign(t)
    \/ \E t \in Threads : ThreadSave(t)

SpecConc == ConcInit /\ [][ConcNext]_vars

(* ------------------- properties of the trade simulation ---------------- *)
IsClosed(t) == t.date_exit # None /\ t.price_exit # None /\ t.pnl # None

OpenCount(ts) == Cardinality({k \in 1..Len(ts) : ts[k].date_exit = None})

RECURSIVE SumPnl(_)
SumPnl(ts) ==
    IF ts = <<>> THEN Zero
    ELSE LET t == ts[Len(ts)]
             rest == SumPnl(SubSeq(ts, 1, Len(ts) - 1))
         IN IF t.pnl = None THEN rest ELSE FAdd(rest, t.pnl)

\* the two states of the spec's machine, as the code tests them
Long == FGt0(position)
Flat == FEq0(position)
AtBar == pc = "loop" /\ bar <= Len(closes)

\* C1: at every point of a run, and so in the returned result, capital is
\* initial_capital plus the sum of the pnl of the trades closed so far
\* (final_capital = initial_capital + sum of trade pnl).
C1_CapitalInvariant ==
    capital = FAdd(initial_capital, SumPnl(trades))

\* a completed run with two closed trades whose capital moved
C1_Witness ==
    /\ pc = "returned"
    /\ capital # initial_capital
    /\ IsFinite(capital)
    /\ Len(trades) = 2
    /\ \A k \in 1..Len(trades) : IsClosed(trades[k])

\* C2: in the result of every completed simulation every trade was created
\* at a bar carrying a bullish signal and has been closed (exit timestamp,
\* exit price and pnl all non-null); no trade is left open.
C2_TradeLifecycle ==
    pc = "returned" =>
        \A k \in 1..Len(trades) :
            /\ signal[BarOf(trades[k].date_entry)] = 1
            /\ IsClosed(trades[k])

\* C3: at most one trade is open at every bar; a bullish or neutral signal
\* while LONG and a bearish or neutral signal while FLAT change neither
\* capital, position, entry price nor the trade list; a bar that closes a
\* trade opens none.
C3_SinglePosition ==
    [][ /\ OpenCount(trades') <= 1
        /\ (AtBar /\ Long /\ signal[bar] \in {0, 1})
              => UNCHANGED <<capital, position, entry_price, trades>>
        /\ (AtBar /\ Flat /\ signal[bar] \in {-1, 0})
              => UNCHANGED <<capital, position, entry_price, trades>>
        /\ (AtBar /\ Long /\ signal[bar] = -1) => Len(trades') = Len(trades)
      ]_vars

\* C4: FLAT and signal 1: a trade is opened at the bar's close with
\* units = (current capital x positionSizePct) / close, the simulator becomes
\* LONG and capital is unchanged.
C4_EntryRule ==
    [][ (AtBar /\ Flat /\ signal[bar] = 1) =>
          /\ Len(trades') = Len(trades) + 1
          /\ SubSeq(trades', 1, Len(trades)) = trades
          /\ LET t == trades'[Len(trades')]
             IN /\ t.date_entry = Ts(bar)
                /\ t.price_entry = closes[bar]
                /\ t.position = FDiv(FMul(capital, position_size_pct), closes[bar])
                /\ position' = t.position
          /\ FGt0(position')
          /\ capital' = capital
      ]_vars

\* C5: LONG and signal -1: the open trade is closed at the bar's close with
\* pnl = units x (exit - entry), capital grows by exactly pnl,
\* pnlPct = pnl / (units x entry) x 100 = (exit - entry) / entry x 100, the
\* trade's capital snapshot is the capital after the close, and the simulator
\* becomes FLAT.
C5_ExitRule ==
    [][ (AtBar /\ Long /\ signal[bar] = -1) =>
          LET t == trades'[Len(trades')]
              p == FMul(position, FSub(closes[bar], entry_price))
          IN /\ t.date_exit = Ts(bar)
             /\ t.price_exit = closes[bar]
             /\ t.pnl = p
             /\ capital' = FAdd(capital, p)
             /\ t.pnl_pct = FMul(FDiv(p, FMul(position, entry_price)), Hundred)
             /\ t.pnl_pct = FMul(FDiv(FSub(closes[bar], entry_price),
                                      entry_price), Hundred)
             /\ t.capital = capital'
             /\ FEq0(position')
      ]_vars

\* C6: the series ends while LONG: the open trade is closed at the final
\* bar's close and timestamp with the pnl, pnlPct and capital update of a
\* signal-driven exit, and no trade stays open; a trade opened on the final
\* bar is closed at its own entry price with pnl 0.
C6_ForcedClose ==
    [][ (pc = "close" /\ Long) =>
          LET t == trades'[Len(trades')]
              last == closes[Len(closes)]
              p == FMul(position, FSub(last, entry_price))
          IN /\ t.date_exit = Ts(Len(closes))
             /\ t.price_exit = last
             /\ t.pnl = p
             /\ capital' = FAdd(capital, p)
             /\ t.pnl_pct = FMul(FDiv(p, FMul(position, entry_price)), Hundred)
             /\ t.capital = capital'
             /\ OpenCount(trades') = 0
             /\ (t.date_entry = Ts(Len(closes))) =>
                    (t.price_exit = t.price_entry /\ t.pnl = Zero)
      ]_vars

(* ---------------------- properties of the signal log -------------------- *)
\* the dedup key of a row: (symbol, timeframe, date, signal value)
RowKey(r) == <<r.symbol, r.timeframe, r.date, r.signal>>

NoDuplicates(rows) ==
    \A i, j \in 1..Len(rows) : i < j => RowKey(rows[i]) # RowKey(rows[j])

CountKey(rows, k) == Cardinality({i \in 1..Len(rows) : RowKey(rows[i]) = k})

\* C7: after any sequence of detectSignals, getSignalsSummary and reloads
\* on a detector, its log never holds two entries with the same
\* (symbol, timeframe, date, signal value).
C7_DedupInvariant ==
    \A d \in Detectors : NoDuplicates(signals_history[d])

\* C8: a detectSignals call that directly follows a detectSignals call of
\* the same detector for the same symbol and timeframe, with the price data
\* unchanged in between, leaves the log (in memory and on file) unchanged.
C8_DetectIdempotent ==
    [][ lastCall'.again =>
            /\ signals_history' = signals_history
            /\ signals_file' = signals_file ]_vars

\* the first of two successive calls appended an entry, next to an entry
\* that an earlier summary had turned into a Timestamp
C8_Witness ==
    /\ lastCall.again
    /\ lastCall.appended
    /\ \E i \in 1..Len(signals_history[lastCall.det]) :
          signals_history[lastCall.det][i].rep = "ts"

\* C9: concurrent detectSignals calls on one detector: in every
\* interleaving, once all calls have returned, the log holds exactly one
\* entry for each detected key (no duplicate, no lost append).
C9_SerializedAppend ==
    (\A t \in Threads : tpc[t] = "done") =>
        \A t \in Threads :
            (series[tkey[t]] # <<>> /\ ThreadLast(t).signal # 0) =>
                CountKey(signals_history[Shared],
                         <<tkey[t][1], tkey[t][2], ThreadLast(t).date,
                           ThreadLast(t).signal>>) = 1

\* C10: the log file is append-only: a (symbol, timeframe, date, signal)
\* entry once written to signals.csv is in the file after every later
\* operation of either detector.
C10_AppendOnly ==
    [][ \A i \in 1..Len(signals_file) :
            CountKey(signals_file', RowKey(signals_file[i])) >= 1 ]_vars

(* ------------------ properties of the run statistics ------------------- *)
\* the greatest element of a non-empty set of numbers: a member that no
\* member exceeds
GreatestOf(S) == CHOOSE m \in S : \A x \in S : ~FGt(x, m)

CapitalAfterTrade(ts, k) == ts[k].capital

\* peak_k: the greatest of the initial capital and the first k post-trade
\* capitals
PeakAt(ts, init, k) ==
    GreatestOf({init} \cup {CapitalAfterTrade(ts, j) : j \in 1..k})

DrawdownAt(ts, init, k) ==
    FMul(FDiv(FSub(PeakAt(ts, init, k), CapitalAfterTrade(ts, k)),
              PeakAt(ts, init, k)), Hundred)

ExampleTrades == [k \in 1..3 |-> [capital |-> Num(<<10000, 9000, 9500>>[k])]]

\* C17: in the result of a completed run max_drawdown is 0 when there are
\* no trades and otherwise the greatest, over the trades k in order, of
\* (peak_k - capitalAfterTrade_k) / peak_k x 100, where peak_k is the
\* greatest of initialCapital and the post-trade capitals up to k; the
\* post-trade capitals [10000, 9000, 9500] from 10000 give 10.
C17_MaxDrawdown ==
    /\ CalculateMaxDrawdown(ExampleTrades, Num(10000)) = Num(10)
    /\ pc = "returned" =>
          IF trades = <<>> THEN stats.max_drawdown = Zero
          ELSE /\ \E k \in 1..Len(trades) :
                     stats.max_drawdown = DrawdownAt(trades, initial_capital, k)
               /\ \A k \in 1..Len(trades) :
                     ~FGt(DrawdownAt(trades, initial_capital, k),
                          stats.max_drawdown)

\* a completed run of two closed trades, the first closed at a loss that
\* left a drawdown below the initial capital
C17_Witness ==
    /\ pc = "returned"
    /\ Len(trades) = 2
    /\ \A k \in 1..2 : IsClosed(trades[k])
    /\ IsFinite(stats.max_drawdown)
    /\ FGt(stats.max_drawdown, Zero)

Winners(ts) == {k \in 1..Len(ts) : ts[k].pnl # None /\ FGt(ts[k].pnl, Zero)}

Losers(ts) == {k \in 1..Len(ts) : ts[k].pnl # None /\ FGt(Zero, ts[k].pnl)}

\* the sum of the pnl of the trades whose index is in K
RECURSIVE PnlOver(_, _)
PnlOver(ts, K) ==
    IF K = {} THEN Zero
    ELSE LET k == CHOOSE x \in K : TRUE
         IN FAdd(ts[k].pnl, PnlOver(ts, K \ {k}))

MeanOver(ts, K) ==
    IF K = {} THEN Zero ELSE FDiv(PnlOver(ts, K), Num(Cardinality(K)))

\* the statistics of C18 other than total_return
CountsAndMeans ==
    /\ stats.trades = trades
    /\ stats.total_trades = Len(trades)
    /\ stats.winning_trades = Cardinality(Winners(trades))
    /\ stats.losing_trades = Cardinality(Losers(trades))
    /\ stats.win_rate =
          IF trades = <<>> THEN Zero
          ELSE FMul(FDiv(Num(Cardinality(Winners(trades))), Num(Len(trades))),
                    Hundred)
    /\ stats.avg_win = MeanOver(trades, Winners(trades))
    /\ stats.avg_loss = MeanOver(trades, Losers(trades))

ReturnFormula ==
    FMul(FSub(FDiv(stats.final_capital, stats.initial_capital), Num(1)), Hundred)

\* C18: in the result of a completed run total_trades is the length of the
\* trade list, winning_trades / losing_trades count the trades with pnl > 0 /
\* pnl < 0, win_rate = winning_trades / total_trades x 100 (0 without
\* trades), avg_win / avg_loss are the mean pnl of the winning / losing
\* trades (0 when there are none) and
\* total_return = (final_capital / initial_capital - 1) x 100.
C18_DerivedStats ==
    pc = "returned" =>
        /\ CountsAndMeans
        /\ stats.total_return = ReturnFormula

\* C18 as amended: the same, with total_return = (final_capital /
\* initial_capital - 1) x 100 when the run made at least one trade and
\* total_return = 0 when it made none.
C18_DerivedStatsAmended ==
    pc = "returned" =>
        /\ CountsAndMeans
        /\ stats.total_return = IF trades = <<>> THEN Zero ELSE ReturnFormula

\* a completed run with a winning and a non-winning trade and a return
\* other than 0
C18_Witness ==
    /\ pc = "returned"
    /\ Len(trades) = 2
    /\ stats.winning_trades = 1
    /\ IsFinite(stats.total_return)
    /\ stats.total_return # Zero
    /\ stats.avg_win # Zero

AllZeroSignals == \A k \in 1..Len(signal) : signal[k] = 0

\* C19: with an empty or all-zero signal series, whatever the prices (none
\* included), the simulation does not raise and returns a result with
\* total_trades = 0, no trades, final_capital = initial_capital,
\* total_return = 0, win_rate = 0 and max_drawdown = 0.
C19_EmptyOutcome ==
    AllZeroSignals =>
        /\ pc # "raised"
        /\ trades = <<>>
        /\ pc \notin {"returned", "raised"} => ENABLED SimNext
        /\ pc = "returned" =>
              /\ stats.total_trades = 0
              /\ stats.trades = <<>>
              /\ stats.final_capital = initial_capital
              /\ stats.initial_capital = initial_capital
              /\ stats.total_return = Zero
              /\ stats.win_rate = Zero
              /\ stats.max_drawdown = Zero
              /\ stats.winning_trades = 0
              /\ stats.losing_trades = 0

\* a returned run over several bars that carried no signal
C19_Witness ==
    /\ pc = "returned"
    /\ Len(closes) >= 2
    /\ AllZeroSignals
    /\ stats.total_trades = 0

ClosedCount(ts) == Cardinality({k \in 1..Len(ts) : ts[k].date_exit # None})

TwinAgrees ==
    /\ twin.capital = capital
    /\ twin.position = position
    /\ twin.entry_price = entry_price
    /\ twin.trades = trades
    /\ twin.stats = stats

\* C20: two simulations of the same prices, signals, initialCapital and
\* positionSizePct that differ only in stop_loss_pct and take_profit_pct
\* agree after every step in capital, position, trade list and statistics;
\* a trade is closed only at a bar with a bearish signal or by the close at
\* the end of the series, never by a price move.
C20_StopLossInert ==
    [][ /\ TwinAgrees'
        /\ ClosedCount(trades') > ClosedCount(trades) =>
              \/ AtBar /\ signal[bar] = -1
              \/ pc = "close"
      ]_vars

\* a returned run whose one trade was held through a fall of the price to
\* half the entry price, while the twin had other percentages
C20_Witness ==
    /\ pc = "returned"
    /\ twin.stop_loss_pct # stop_loss_pct
    /\ twin.take_profit_pct # take_profit_pct
    /\ Len(trades) = 1
    /\ trades[1].date_entry = Ts(1)
    /\ trades[1].date_exit = Ts(3)
    /\ closes[1] = Num(2)
    /\ closes[2] = Num(1)
    /\ stats # None

(* ---------------------- properties of the indicators -------------------- *)
Bars == 1..Len(df.index)

\* zlma > ema, zlma < ema, zlma <= ema, zlma >= ema, zlma == ema at bar k
Above(k) == FGt(df.ZLMA[k], df.EMA[k])
Below(k) == FGt(df.EMA[k], df.ZLMA[k])
NotAbove(k) == df.ZLMA[k] # NaN /\ df.EMA[k] # NaN /\ ~Above(k)
NotBelow(k) == df.ZLMA[k] # NaN /\ df.EMA[k] # NaN /\ ~Below(k)
Touch(k) == NotAbove(k) /\ NotBelow(k)

\* C14: for every bar after the first, Signal = 1 iff zlma > ema at the bar
\* and zlma <= ema at the bar before, Signal = -1 iff zlma < ema at the bar
\* and zlma >= ema at the bar before, and Signal = 0 otherwise; a bar where
\* zlma == ema carries no crossover.
C14_Crossover ==
    df.Signal # None =>
        \A k \in Bars \ {1} :
            /\ df.Signal[k] \in {-1, 0, 1}
            /\ df.Signal[k] = 1 <=> (Above(k) /\ NotAbove(k - 1))
            /\ df.Signal[k] = -1 <=> (Below(k) /\ NotBelow(k - 1))
            /\ Touch(k) => df.Signal[k] = 0

\* a frame that starts with zlma == ema, crosses up and then crosses down
C14_Witness ==
    /\ df.Signal = <<0, 1, -1>>
    /\ Touch(1)

\* C15: the first bar never carries a signal, also when zlma and ema differ
\* there.
C15_NoSignalAtStart ==
    (df.Signal # None /\ Bars # {}) => df.Signal[1] = 0

\* signals were computed on a frame whose first bar has zlma above ema and
\* whose second bar has zlma below
C15_Witness ==
    /\ df.Signal # None
    /\ Len(df.index) >= 2
    /\ Above(1)
    /\ df.Signal[2] = -1

\* the bars with a non-zero Signal
SignalBars == {k \in Bars : df.Signal[k] # 0}

\* C16: on a non-empty frame with indicators the last signal is the bar with
\* the greatest timestamp among the bars with a non-zero Signal, with that
\* bar's signal, date, close and trend; without such a bar it is the final
\* bar with signal 0 and that bar's close and trend.
C16_LastSignal ==
    (df.step = "done" /\ Bars # {}) =>
        IF SignalBars # {}
        THEN \E k \in SignalBars :
                /\ \A j \in SignalBars : BarOf(df.index[j]) <= BarOf(df.index[k])
                /\ df.last_signal = [signal |-> df.Signal[k],
                                     date |-> BarOf(df.index[k]),
                                     price |-> df.Close[k],
                                     trend |-> df.Trend[k]]
        ELSE LET n == Len(df.index)
             IN df.last_signal = [signal |-> 0, date |-> BarOf(df.index[n]),
                                  price |-> df.Close[n], trend |-> df.Trend[n]]

\* two bars carry a signal and the later one was returned
C16_Witness ==
    /\ df.step = "done"
    /\ Cardinality(SignalBars) = 2
    /\ df.last_signal.date = 3
    /\ df.last_signal.signal = -1

(* --------------------- properties of detect_signals -------------------- *)
\* C13: detectSignals returns a result and never raises, whatever series
\* the source returned; on a non-empty series that lacks one of Open, High,
\* Low, Close, Volume the result carries no derived signals and the call
\* appends nothing to the signal log.
C13_DetectNeverRaises ==
    [][ lastCall'.kind = "detect" =>
          /\ "raised" \notin DOMAIN lastCall'.result
          /\ (series[lastCall'.key] # <<>> /\ missing[lastCall'.key] # "none") =>
                /\ lastCall'.result.signals_count = 0
                /\ lastCall'.result.all_signals = <<>>
                /\ lastCall'.result.last_signal.signal = 0
                /\ signals_history' = signals_history
                /\ signals_file' = signals_file
      ]_vars

(* ----------------------- properties of run_backtest --------------------- *)
\* C11: a run whose simulation failed returns {success: false, error}
\* without a trade list, appends no row to the backtest summary file and
\* leaves the signal log as it was (empty, in memory and on file).
C11_FailureNotPartial ==
    (run.phase = "done" /\ pc = "raised") =>
        /\ run.result.success = FALSE
        /\ DOMAIN run.result = {"success", "error"}
        /\ results_file = <<>>
        /\ signals_file = <<>>
        /\ \A d \in Detectors : signals_history[d] = <<>>

\* what run_backtest returns for bars that led to no trade
ZeroTradeResult ==
    [success |-> TRUE,
     results |-> [initial_capital |-> initial_capital,
                  final_capital |-> initial_capital,
                  total_return |-> Zero, total_trades |-> 0,
                  winning_trades |-> 0, losing_trades |-> 0,
                  win_rate |-> Zero, avg_win |-> Zero, avg_loss |-> Zero,
                  max_drawdown |-> Zero, trades |-> <<>>]]

\* C12: the result of detect_signals on a non-empty series is never the one
\* it returns for an empty series; run_backtest returns for bars without a
\* trade a result that it never returns when there was no bar to process
\* (the source returned nothing, or the date filter left nothing).
C12_NoDataDistinct ==
    /\ (lastCall.kind = "detect" /\ series[lastCall.key] # <<>>) =>
          lastCall.result # NoDataResult(lastCall.key)
    /\ (run.phase = "done" /\ closes # <<>> /\ pc = "returned" /\ trades = <<>>) =>
          run.result = ZeroTradeResult
    /\ (run.phase = "done" /\ closes = <<>>) => run.result # ZeroTradeResult

(* ---------------------- properties of add_indicators ------------------- *)
Derived == {"EMA", "ZLMA", "Signal", "Trend"}

\* add_indicators has returned
Added == data_with_indicators # None

\* ... a frame with the indicator columns
Computed == Added /\ HasRequired(price_data)

Rows == 1..Len(price_data.index)

\* C21: on a frame that lacks a required column add_indicators returns the
\* frame as it was given, with none of EMA, ZLMA, Signal, Trend; on a frame
\* with all of them it returns one row per bar of the input, each with EMA,
\* ZLMA, a Signal in {-1, 0, 1} and a Trend in {-1, 0, 1}; the caller's frame
\* is never written.
C21_AddIndicators ==
    /\ [](Added =>
            IF \E c \in Columns : c \notin price_data.columns
            THEN /\ data_with_indicators = price_data
                 /\ data_with_indicators.columns \cap Derived = {}
            ELSE /\ data_with_indicators.index = price_data.index
                 /\ data_with_indicators.Close = price_data.Close
                 /\ Derived \subseteq data_with_indicators.columns
                 /\ \A col \in {"EMA", "ZLMA", "Signal", "Trend"} :
                        DOMAIN data_with_indicators[col] = Rows
                 /\ \A k \in Rows :
                        /\ data_with_indicators.Signal[k] \in {-1, 0, 1}
                        /\ data_with_indicators.Trend[k] \in {-1, 0, 1})
    /\ [][price_data' = price_data]_vars

\* both outcomes: a frame of several bars with its indicators, a signal
\* among them
C21_Witness ==
    /\ Computed
    /\ Len(price_data.index) >= 3
    /\ \E k \in Rows : data_with_indicators.Signal[k] = -1
    /\ \E k \in Rows : data_with_indicators.Trend[k] = 1

AllNaN(col) == \A k \in DOMAIN col : col[k] = NaN

AllZero(col) == \A k \in DOMAIN col : col[k] = 0

\* the columns add_indicators gives the same frame when neither period is
\* rejected
Unfailed(ep, zp) == AddIndicators(price_data, ep, zp)

\* C22: when the ZLMA calculation raises, the ZLMA column is NaN on every
\* bar, the EMA column is what it is without that failure, and Signal and
\* Trend are 0 on every bar; likewise with EMA and ZLMA exchanged.
C22_ErrorIsolation ==
    Computed =>
        /\ EwmRaises(zlma_period) =>
              /\ AllNaN(data_with_indicators.ZLMA)
              /\ AllZero(data_with_indicators.Signal)
              /\ AllZero(data_with_indicators.Trend)
              /\ ~EwmRaises(ema_period) =>
                    data_with_indicators.EMA = Unfailed(ema_period, 15).EMA
        /\ EwmRaises(ema_period) =>
              /\ AllNaN(data_with_indicators.EMA)
              /\ AllZero(data_with_indicators.Signal)
              /\ AllZero(data_with_indicators.Trend)
              /\ ~EwmRaises(zlma_period) =>
                    data_with_indicators.ZLMA = Unfailed(15, zlma_period).ZLMA

\* the ZLMA calculation failed on bars whose EMA moves
C22_Witness ==
    /\ Computed
    /\ EwmRaises(zlma_period)
    /\ ema_period = 15
    /\ Len(price_data.index) >= 3
    /\ \E k \in Rows : /\ IsFinite(data_with_indicators.EMA[k])
                       /\ data_with_indicators.EMA[k] # price_data.Close[k]
    /\ Unfailed(15, 15).Signal # data_with_indicators.Signal

\* v lies between a and b, ends included
Between(v, a, b) ==
    \/ FLe(a, v) /\ FLe(v, b)
    \/ FLe(b, v) /\ FLe(v, a)

\* C24: the EMA of a series of two or more values, for a period >= 1, has
\* the length of the series, starts at the first value, and from then on is
\* alpha * value + (1 - alpha) * previous EMA with alpha = 2 / (period + 1),
\* which lies between the previous EMA and the value.
C24_Smoothing ==
    (Computed /\ ema_period >= 1 /\ Len(price_data.Close) >= 2) =>
        LET input == price_data.Close
            output == data_with_indicators.EMA
            a == Norm(2, ema_period + 1)
        IN /\ Len(output) = Len(input)
           /\ output[1] = input[1]
           /\ \A i \in 2..Len(input) :
                 /\ output[i] = FAdd(FMul(a, input[i]),
                                     FMul(FSub(Num(1), a), output[i - 1]))
                 /\ Between(output[i], output[i - 1], input[i])

\* an average strictly inside the two ends, with the default period
C24_Witness ==
    /\ Computed
    /\ ema_period = 15
    /\ \E i \in 2..Len(price_data.Close) :
          /\ FLt(data_with_indicators.EMA[i - 1], data_with_indicators.EMA[i])
          /\ FLt(data_with_indicators.EMA[i], price_data.Close[i])
          /\ i >= 3

\* add_indicators on the first i bars of the caller's frame
OnPrefix(i) ==
    AddIndicators(PriceFrame(SubSeq(price_data.Close, 1, i), price_data.columns),
                  ema_period, zlma_period)

\* C25: the EMA, ZLMA, Signal and Trend of bars 1..i are those of the series
\* cut after bar i: two series that agree up to bar i agree there on all four
\* columns, and appending bars changes no row already computed.
C25_Causality ==
    Computed =>
        \A i \in 0..Len(price_data.index) :
            LET cut == OnPrefix(i)
            IN \A col \in {"EMA", "ZLMA", "Signal", "Trend"} :
                   cut[col] = SubSeq(data_with_indicators[col], 1, i)

\* bars follow a signal and move both averages
C25_Witness ==
    /\ Computed
    /\ ema_period >= 1
    /\ zlma_period >= 1
    /\ \E i \in Rows :
          /\ i + 2 <= Len(price_data.index)
          /\ data_with_indicators.Signal[i] # 0
          /\ data_with_indicators.Signal[i + 2] # 0
          /\ price_data.Close[i + 1] # price_data.Close[i]
          /\ price_data.Close[i + 2] # price_data.Close[i + 1]

\* bars i < j carry the same non-zero Signal and no bar between them has one
SameSignTwice(i, j) ==
    /\ i < j
    /\ data_with_indicators.Signal[i] # 0
    /\ data_with_indicators.Signal[j] = data_with_indicators.Signal[i]
    /\ \A m \in (i + 1)..(j - 1) : data_with_indicators.Signal[m] = 0

\* ZLMA == EMA on bar k, and Trend 0 there
EqualityBar(k) ==
    /\ FLe(data_with_indicators.ZLMA[k], data_with_indicators.EMA[k])
    /\ FGe(data_with_indicators.ZLMA[k], data_with_indicators.EMA[k])
    /\ data_with_indicators.Trend[k] = 0

\* C29: a bar with a non-zero Signal has that Trend, and two signals of the
\* same sign with none between them have between them a bar where ZLMA
\* equals EMA.
C29_TouchBetween ==
    Computed =>
        /\ \A k \in Rows : data_with_indicators.Signal[k] # 0 =>
              data_with_indicators.Trend[k] = data_with_indicators.Signal[k]
        /\ \A i, j \in Rows : SameSignTwice(i, j) =>
              \E k \in (i + 1)..(j - 1) : EqualityBar(k)

\* two bullish signals in a row
C29_Witness ==
    /\ Computed
    /\ \E i, j \in Rows : SameSignTwice(i, j) /\ data_with_indicators.Signal[i] = 1

(* ------------------- properties of get_signals_summary ----------------- *)
\* get_signals_summary was the last call; the log it was made on
Summarised == lastCall.kind = "summary"

SummarisedLog == signals_history[lastCall.det]

CountSignal(rows, v) == Cardinality({i \in 1..Len(rows) : rows[i].signal = v})

\* the entry (symbol, timeframe, date, signal) of a row
Entry(r) == <<r.symbol, r.timeframe, r.date, r.signal>>

\* how often entry e occurs among rows
CountEntry(rows, e) == Cardinality({i \in 1..Len(rows) : Entry(rows[i]) = e})

\* `latest` holds m of the entries of `rows`, none of them earlier than an
\* entry left out, latest first
LatestOf(latest, rows, m) ==
    /\ Len(latest) = m
    /\ \A i \in 1..(Len(latest) - 1) : latest[i].date >= latest[i + 1].date
    /\ \A i \in 1..Len(latest) :
          CountEntry(latest, Entry(latest[i])) <= CountEntry(rows, Entry(latest[i]))
    /\ \A i \in 1..Len(rows) :
          CountEntry(latest, Entry(rows[i])) < CountEntry(rows, Entry(rows[i]))
              => \A j \in 1..Len(latest) : latest[j].date >= rows[i].date

\* C23: over a log of n entries get_signals_summary returns total_signals n,
\* the numbers of entries with signal 1 and -1 (together n), and as
\* latest_signals the min(10, n) latest entries, latest first; over an empty
\* log it returns zero counts and an empty list.
C23_Summary ==
    Summarised =>
        LET n == Len(SummarisedLog)
            summary == lastCall.result
        IN /\ summary # Raised("ValueError")
           /\ summary.total_signals = n
           /\ summary.bullish_signals = CountSignal(SummarisedLog, 1)
           /\ summary.bearish_signals = CountSignal(SummarisedLog, -1)
           /\ summary.bullish_signals + summary.bearish_signals = n
           /\ LatestOf(summary.latest_signals, SummarisedLog,
                       IF n < 10 THEN n ELSE 10)

\* C27: get_signals_summary leaves the log in memory, every field and its
\* representation, and the log file as they were.
C27_SummaryReadOnly ==
    [][lastCall'.kind = "summary" =>
          /\ signals_history' = signals_history
          /\ date_dtype' = date_dtype
          /\ signals_file' = signals_file]_vars

(* ------------------ properties of the monitoring service --------------- *)
\* thread t has not ended and has run the scheduled tasks since the thread
\* created last was started
RunsAlongside(t) ==
    /\ t < Len(loops)
    /\ loops[t].pc # "exited"
    /\ loops[t].ran = Len(loops)

\* C26: after any calls of start() and stop() no loop thread but the one
\* created last is alive and running the scheduled tasks: start() while
\* running creates no thread, and after stop() and start() the old loop does
\* not run alongside the new one.
C26_SingleLoop == \A t \in 1..Len(loops) : ~RunsAlongside(t)

\* C30: every call of send_status_report, whatever the log holds, passes
\* one message to the notifier, built from the counts of the summary and the
\* date of the last signal.
C30_StatusReport ==
    [][lastCall'.kind = "report" =>
          /\ Len(messages') = Len(messages) + 1
          /\ messages'[Len(messages')].bullish_signals
                 = CountSignal(signals_history'[lastCall'.det], 1)
          /\ messages'[Len(messages')].bearish_signals
                 = CountSignal(signals_history'[lastCall'.det], -1)]_vars

(* ----------------------- order of the trades --------------------------- *)
\* trade t was closed after the bar it was opened on, or opened on the
\* final bar and closed there
EntryBeforeExit(t) ==
    /\ t.date_exit # None
    /\ \/ BarOf(t.date_entry) < BarOf(t.date_exit)
       \/ /\ BarOf(t.date_entry) = Len(closes)
          /\ BarOf(t.date_exit) = Len(closes)

\* C28: in the result of a completed simulation each trade is closed
\* strictly before the next one is opened, and within a trade the entry is
\* strictly before the exit, unless the trade was opened on the final bar
\* and closed there.
C28_Chronological ==
    pc = "returned" =>
        /\ \A k \in 1..(Len(trades) - 1) :
              /\ trades[k].date_exit # None
              /\ BarOf(trades[k].date_exit) < BarOf(trades[k + 1].date_entry)
        /\ \A k \in 1..Len(trades) : EntryBeforeExit(trades[k])

====
